---- MODULE Spec2Model ----
(***************************************************************************)
(* Transaction Ledger & Financial Insights subsystem of TaxWise.           *)
(*                                                                         *)
(* The model follows backend/local_auth.py (the SQLite credential, session *)
(* and ledger store) and the two route handlers that use it,               *)
(* backend/app/routes/file_processing.py (ingestion) and                   *)
(* backend/app/routes/dashboard.py (aggregation).                          *)
(*                                                                         *)
(* Conventions                                                             *)
(*  - A table is a sequence of rows in insertion (rowid) order.            *)
(*  - Time is counted in days: datetime.now() is `clock`, a calendar date  *)
(*    is its day number, and date.isoformat() is the order-preserving      *)
(*    rendering of that number (ISO strings sort like the dates).          *)
(*  - Money is counted in units of 1/AmountScale, so that amounts with a   *)
(*    fractional part exist; float(amount) is exact on these values.       *)
(*  - uuid4() and secrets.token_urlsafe(32) return values never seen       *)
(*    before; the model names them by their order of issue.                *)
(*  - `ret` is the response of the request served at the current instant.  *)
(***************************************************************************)
EXTENDS Integers, Sequences, FiniteSets, TLC

VARIABLES
    clock,      \* datetime.now(), in days
    users,      \* table users
    sessions,   \* table sessions
    regs,       \* requests in flight: register_user calls between their SELECT
                \* and their INSERT, uploads between their store_transaction calls
    registered, \* history: the (email, password) pairs whose registration succeeded
    ledger,     \* table transactions
    ret         \* response of the request served now

vars == <<clock, users, sessions, regs, registered, ledger, ret>>

----------------------------------------------------------------------------
(* Bounds of the model *)

MaxClock    == 8
MaxUsers    == 2
MaxSessions == 2
MaxReqs     == 2
MaxBatch    == 2
MaxLedger   == 2
MaxDrawn    == 2
MaxRows     == 101
MaxProfileClock == 2
MaxUploads  == 6
MaxActivityRows == 4
AmountScale == 2

(* Program constants *)

SessionDays == 7
WindowDays  == 365
DefaultLimit == 1000
MaxPageSize  == 100
DescriptionLimit == 50
TransactionEntries == 3
ActivityLimit == 5

Emails    == {"a@x.in", "b@x.in"}
Passwords == {"pw1", "pw2"}
Reqs      == 1..MaxReqs

NULL  == "NULL"
NoRet == [op |-> "none"]

----------------------------------------------------------------------------
(* Credential & session store: local_auth.py *)

\* Variant: a digest that does not depend on the password.
hash_password_const(password) == <<"sha256", "">>

\* hashlib.sha256(password.encode()).hexdigest(): deterministic, and
\* distinct passwords of the model have distinct digests.
hash_password(password) == <<"sha256", password>>

\* SELECT id FROM users WHERE email = ?   (BINARY collation: exact match)
EmailExists(email) == \E i \in 1..Len(users) : users[i].email = email

\* Variant: a users table whose email column is not declared UNIQUE.
UniqueViolation_none(email) == FALSE

\* email TEXT UNIQUE NOT NULL: would an INSERT of this email be refused?
UniqueViolation(email) == \E i \in 1..Len(users) : users[i].email = email

\* str(uuid.uuid4()) for a user row
NewUserId == "u" \o ToString(Len(users) + 1)

\* INSERT INTO users (id, email, password_hash, name, phone, pan). The
\* columns created_at and updated_at take their default, CURRENT_TIMESTAMP;
\* updated_at is carried on the rows update_user_profile works on
\* (InitProfile).
UserRow(email, password) ==
    [id            |-> NewUserId,
     email         |-> email,
     password_hash |-> hash_password(password),
     name          |-> "",
     phone         |-> "",
     pan           |-> ""]

RegisterOk(email) ==
    [op |-> "register", success |-> TRUE, email |-> email, id |-> NewUserId]

RegisterErr(email, error) ==
    [op |-> "register", success |-> FALSE, email |-> email, error |-> error]

\* register_user run from its first statement to its return with no other
\* request in between.
register_user(email, password) ==
    /\ IF EmailExists(email)
         THEN /\ ret' = RegisterErr(email, "Email already registered")
              /\ UNCHANGED <<users, registered>>
         ELSE /\ Len(users) < MaxUsers
              /\ users' = Append(users, UserRow(email, password))
              /\ registered' = registered \cup {<<email, password>>}
              /\ ret' = RegisterOk(email)
    /\ UNCHANGED <<clock, sessions, regs, ledger>>

\* register_user, first half: the existence check. The SELECT runs in
\* autocommit mode, so other requests may run before the INSERT.
RegisterCheck(r, email, password) ==
    /\ regs[r].pc = "idle"
    /\ IF EmailExists(email)
         THEN /\ ret' = RegisterErr(email, "Email already registered")
              /\ UNCHANGED regs
         ELSE /\ regs' = [regs EXCEPT ![r] =
                     [pc |-> "insert", email |-> email, password |-> password]]
              /\ ret' = NoRet
    /\ UNCHANGED <<clock, users, sessions, registered, ledger>>

\* register_user, second half: the INSERT. email is UNIQUE NOT NULL, so an
\* INSERT of a present email raises IntegrityError, which the handler's
\* except clause turns into {'success': False, 'error': str(e)}.
RegisterInsert(r) ==
    /\ regs[r].pc = "insert"
    /\ IF UniqueViolation(regs[r].email)
         THEN /\ ret' = RegisterErr(regs[r].email,
                                    "UNIQUE constraint failed: users.email")
              /\ UNCHANGED <<users, registered>>
         ELSE /\ Len(users) < MaxUsers
              /\ users' = Append(users, UserRow(regs[r].email, regs[r].password))
              /\ registered' = registered \cup {<<regs[r].email, regs[r].password>>}
              /\ ret' = RegisterOk(regs[r].email)
    /\ regs' = [regs EXCEPT ![r] = [pc |-> "idle"]]
    /\ UNCHANGED <<clock, sessions, ledger>>

\* SELECT ... FROM users WHERE email = ? AND password_hash = ?
CredentialRows(email, password) ==
    {i \in 1..Len(users) : /\ users[i].email = email
                           /\ users[i].password_hash = hash_password(password)}

\* secrets.token_urlsafe(32)
NewToken == "tok" \o ToString(Len(sessions) + 1)

\* datetime.now() + timedelta(days=7)
SessionExpiry(now) == now + SessionDays

\* Variant: a login that replaces the user's earlier sessions.
login_user_single(email, password) ==
    /\ IF CredentialRows(email, password) = {}
         THEN /\ ret' = [op |-> "login", success |-> FALSE, email |-> email,
                         password |-> password, error |-> "Invalid credentials"]
              /\ UNCHANGED sessions
         ELSE LET user == users[CHOOSE i \in CredentialRows(email, password) : TRUE]
                  Others(s) == s.user_id # user.id
              IN  /\ Len(sessions) < MaxSessions
                  /\ sessions' = Append(SelectSeq(sessions, Others),
                        [token      |-> NewToken,
                         user_id    |-> user.id,
                         expires_at |-> SessionExpiry(clock),
                         created_at |-> clock])
                  /\ ret' = [op |-> "login", success |-> TRUE, email |-> email,
                             password |-> password, user_id |-> user.id,
                             access_token |-> NewToken,
                             expires_at |-> SessionExpiry(clock)]
    /\ UNCHANGED <<clock, users, regs, registered, ledger>>

\* login_user
login_user(email, password) ==
    /\ IF CredentialRows(email, password) = {}
         THEN /\ ret' = [op |-> "login", success |-> FALSE, email |-> email,
                         password |-> password, error |-> "Invalid credentials"]
              /\ UNCHANGED sessions
         ELSE LET user == users[CHOOSE i \in CredentialRows(email, password) : TRUE]
              IN  /\ Len(sessions) < MaxSessions
                  /\ sessions' = Append(sessions,
                        [token      |-> NewToken,
                         user_id    |-> user.id,
                         expires_at |-> SessionExpiry(clock),
                         created_at |-> clock])
                  /\ ret' = [op |-> "login", success |-> TRUE, email |-> email,
                             password |-> password, user_id |-> user.id,
                             access_token |-> NewToken,
                             expires_at |-> SessionExpiry(clock)]
    /\ UNCHANGED <<clock, users, regs, registered, ledger>>

\* Variant: a session still accepted at the instant of its expiry.
SessionLive_inclusive(s, token, now) == s.token = token /\ s.expires_at >= now

\* WHERE s.token = ? AND s.expires_at > ?   with ? = datetime.now()
SessionLive(s, token, now) == s.token = token /\ s.expires_at > now

\* SELECT u.* FROM sessions s JOIN users u ON s.user_id = u.id WHERE ...
VerifyRows(token, now) ==
    {u \in {users[i] : i \in 1..Len(users)} :
        \E j \in 1..Len(sessions) :
            SessionLive(sessions[j], token, now) /\ sessions[j].user_id = u.id}

\* The value verify_token returns.
VerifyResult(token, now) ==
    IF VerifyRows(token, now) = {}
      THEN [success |-> FALSE, error |-> "Invalid or expired token"]
      ELSE [success |-> TRUE,
            user    |-> CHOOSE u \in VerifyRows(token, now) : TRUE]

\* Tokens a caller may present: issued ones, a provider-issued one and
\* one nobody issued. The provider's tokens are JWTs; "forged.jwt" has the
\* shape of one, was issued by nobody and names user u1 in its payload.
RemoteTokens    == {"jwt1"}
PresentedTokens ==
    {sessions[j].token : j \in 1..Len(sessions)}
        \cup RemoteTokens \cup {"forged.jwt", "bogus"}

\* Variant: a verification that renews the session it accepts.
verify_token_sliding(token) ==
    /\ ret' = [op |-> "verify", token |-> token,
               result |-> VerifyResult(token, clock)]
    /\ sessions' = [j \in 1..Len(sessions) |->
                       IF SessionLive(sessions[j], token, clock)
                         THEN [sessions[j] EXCEPT
                                  !.expires_at = SessionExpiry(clock)]
                         ELSE sessions[j]]
    /\ UNCHANGED <<clock, users, regs, registered, ledger>>

\* verify_token: one SELECT, no write
verify_token(token) ==
    /\ ret' = [op |-> "verify", token |-> token,
               result |-> VerifyResult(token, clock)]
    /\ UNCHANGED <<clock, users, sessions, regs, registered, ledger>>

\* SupabaseAuth.logout_user: set_session and sign_out at the provider,
\* which answers or raises; the tables of local_auth.py are not touched.
logout_user(access_token) ==
    /\ \E signed_out \in BOOLEAN :
          ret' = [op |-> "logout", token |-> access_token,
                  success |-> signed_out]
    /\ UNCHANGED <<clock, users, sessions, regs, registered, ledger>>

\* Time passes.
Tick ==
    /\ clock < MaxClock
    /\ clock' = clock + 1
    /\ ret' = NoRet
    /\ UNCHANGED <<users, sessions, regs, registered, ledger>>

----------------------------------------------------------------------------
(* Ledger store: local_auth.py *)

RECURSIVE SumSeq(_)
\* sum(...) over a list of numbers
SumSeq(s) == IF s = <<>> THEN 0 ELSE Head(s) + SumSeq(Tail(s))

\* t['amount'] for t in rows
Amounts(rows) == [i \in 1..Len(rows) |-> rows[i].amount]

\* str(uuid.uuid4()) for a transaction row
NewTransactionId(led) == "txn" \o ToString(Len(led) + 1)

\* user_id, description and transaction_type are declared NOT NULL (so are
\* date and amount, which are never None in a record built here): the
\* INSERT raises IntegrityError when one of them is None.
NotNullViolation(rec) ==
    \/ rec.user_id = NULL
    \/ rec.description = NULL
    \/ rec.transaction_type = NULL

\* What makes store_transaction return {'success': False}: only an
\* exception of the INSERT. The table has no CHECK constraint and the
\* function validates nothing.
StoreRefuses(rec) == NotNullViolation(rec)

\* store_transaction, as a function of the table: the value returned and
\* the table afterwards.
store_transaction(led, rec) ==
    IF StoreRefuses(rec)
      THEN [success |-> FALSE, ledger |-> led]
      ELSE [success        |-> TRUE,
            transaction_id |-> NewTransactionId(led),
            ledger         |-> Append(led,
                [id               |-> NewTransactionId(led),
                 user_id          |-> rec.user_id,
                 file_id          |-> rec.file_id,
                 date             |-> rec.date,
                 description      |-> rec.description,
                 amount           |-> rec.amount,
                 transaction_type |-> rec.transaction_type,
                 category         |-> rec.category])]

\* 'key' in filters
Has(filters, key) == key \in DOMAIN filters

\* Variant: a query without the user filter.
RowMatches_anyuser(row, user_id, filters) ==
    /\ Has(filters, "category") => row.category = filters.category
    /\ Has(filters, "transaction_type") =>
          row.transaction_type = filters.transaction_type
    /\ Has(filters, "start_date") => row.date >= filters.start_date
    /\ Has(filters, "end_date") => row.date <= filters.end_date

\* WHERE user_id = ? [AND category = ?] [AND transaction_type = ?]
\*                   [AND date >= ?] [AND date <= ?]
RowMatches(row, user_id, filters) ==
    /\ row.user_id = user_id
    /\ Has(filters, "category") => row.category = filters.category
    /\ Has(filters, "transaction_type") =>
          row.transaction_type = filters.transaction_type
    /\ Has(filters, "start_date") => row.date >= filters.start_date
    /\ Has(filters, "end_date") => row.date <= filters.end_date

RECURSIVE OrderByDateDesc(_)
\* ORDER BY date DESC. The statement names no second key; rows of one date
\* come out as the index idx_transactions_user_date(user_id, date DESC)
\* holds them, in rowid (insertion) order.
OrderByDateDesc(rows) ==
    IF rows = <<>> THEN <<>>
    ELSE LET first == CHOOSE i \in 1..Len(rows) :
                         /\ \A k \in 1..Len(rows) : rows[k].date <= rows[i].date
                         /\ \A k \in 1..(i - 1) : rows[k].date < rows[i].date
             rest  == [k \in 1..(Len(rows) - 1) |->
                          IF k < first THEN rows[k] ELSE rows[k + 1]]
         IN  <<rows[first]>> \o OrderByDateDesc(rest)

\* LIMIT ? OFFSET ?
LimitOffset(rows, limit, offset) ==
    SubSeq(rows, offset + 1,
           IF offset + limit < Len(rows) THEN offset + limit ELSE Len(rows))

\* get_user_transactions(user_id, limit, offset, filters), as a function of
\* the table.
get_user_transactions(led, user_id, limit, offset, filters) ==
    LET Keep(row) == RowMatches(row, user_id, filters)
    IN  [success      |-> TRUE,
         transactions |->
             LimitOffset(OrderByDateDesc(SelectSeq(led, Keep)), limit, offset)]

\* Variant: a summary over the whole table.
SummaryRows_all(led, user_id) == led

\* FROM transactions WHERE user_id = ?
SummaryRows(led, user_id) ==
    LET Mine(row) == row.user_id = user_id
    IN  SelectSeq(led, Mine)

\* Variant: a breakdown with a group for the rows without category.
SummaryCategories_all(rows) ==
    {rows[i].category : i \in 1..Len(rows)}

\* WHERE user_id = ? AND category IS NOT NULL GROUP BY category
SummaryCategories(rows) ==
    {rows[i].category : i \in 1..Len(rows)} \ {NULL}

\* get_transaction_summary(user_id), as a function of the table.
get_transaction_summary(led, user_id) ==
    LET rows       == SummaryRows(led, user_id)
        IsCredit(row) == row.transaction_type = "credit"
        IsDebit(row)  == row.transaction_type = "debit"
        income     == SumSeq(Amounts(SelectSeq(rows, IsCredit)))
        expenses   == SumSeq(Amounts(SelectSeq(rows, IsDebit)))
        cats       == SummaryCategories(rows)
    IN  [success |-> TRUE,
         summary |->
            [total_transactions |-> Len(rows),
             total_income       |-> income,
             total_expenses     |-> expenses,
             net_savings        |-> income - expenses,
             categories         |->
                [c \in cats |->
                    LET InCat(row) == row.category = c
                    IN  [count  |-> Len(SelectSeq(rows, InCat)),
                         amount |-> SumSeq(Amounts(
                                        SelectSeq(rows, InCat)))]]]]

----------------------------------------------------------------------------
(* Profiles: local_auth.py *)

\* The partial updates a caller may send: nothing, one field, all three,
\* and one with a key the function does not know.
ProfileUpdates ==
    {<<>>,
     [name |-> "Asha"],
     [phone |-> "98"],
     [pan |-> "ABCDE1234F"],
     [name |-> "Asha", phone |-> "98", pan |-> "ABCDE1234F"],
     [name |-> "Ravi", email |-> "z@x.in"]}

\* The value get_user_profile returns: 'User not found' when no row has
\* the id.
ProfileLookup(user_id, rows) ==
    IF \E i \in 1..Len(rows) : rows[i].id = user_id
      THEN LET user == rows[CHOOSE i \in 1..Len(rows) : rows[i].id = user_id]
           IN  [success |-> TRUE,
                profile |-> [id    |-> user.id,
                             email |-> user.email,
                             name  |-> user.name,
                             phone |-> user.phone,
                             pan   |-> user.pan]]
      ELSE [success |-> FALSE, error |-> "User not found"]

\* get_user_profile
get_user_profile(user_id) ==
    /\ ret' = [op |-> "get_profile", user_id |-> user_id,
               result |-> ProfileLookup(user_id, users)]
    /\ UNCHANGED <<clock, users, sessions, regs, registered, ledger>>

\* Lines 261-276: the SELECT after the UPDATE; fetchone() is None for an
\* id no row carries, and subscripting it raises TypeError.
UpdateProfileResult(user_id, profile_data, rows) ==
    IF \E i \in 1..Len(rows) : rows[i].id = user_id
      THEN LET user == rows[CHOOSE i \in 1..Len(rows) : rows[i].id = user_id]
           IN  [op |-> "update_profile", user_id |-> user_id,
                profile_data |-> profile_data, success |-> TRUE,
                profile |-> [id    |-> user.id,
                             email |-> user.email,
                             name  |-> user.name,
                             phone |-> user.phone,
                             pan   |-> user.pan]]
      ELSE [op |-> "update_profile", user_id |-> user_id,
            profile_data |-> profile_data, success |-> FALSE,
            error |-> "'NoneType' object is not subscriptable"]

\* Variant: an update that writes all three profile columns, None for a
\* field the caller did not send.
UpdatedUser_overwrite(user, profile_data) ==
    [user EXCEPT
        !.name  = IF Has(profile_data, "name") THEN profile_data.name ELSE NULL,
        !.phone = IF Has(profile_data, "phone") THEN profile_data.phone ELSE NULL,
        !.pan   = IF Has(profile_data, "pan") THEN profile_data.pan ELSE NULL,
        !.updated_at = clock]

\* UPDATE users SET [name = ?][, phone = ?][, pan = ?],
\*                  updated_at = CURRENT_TIMESTAMP      for one row
UpdatedUser(user, profile_data) ==
    [user EXCEPT
        !.name  = IF Has(profile_data, "name") THEN profile_data.name ELSE @,
        !.phone = IF Has(profile_data, "phone") THEN profile_data.phone ELSE @,
        !.pan   = IF Has(profile_data, "pan") THEN profile_data.pan ELSE @,
        !.updated_at = clock]

\* update_user_profile: the UPDATE ... WHERE id = ?, the commit, and the
\* SELECT of the row.
update_user_profile(user_id, profile_data) ==
    /\ users' = [i \in 1..Len(users) |->
                    IF users[i].id = user_id
                      THEN UpdatedUser(users[i], profile_data)
                      ELSE users[i]]
    /\ ret' = UpdateProfileResult(user_id, profile_data, users')
    /\ UNCHANGED <<clock, sessions, regs, registered, ledger>>

----------------------------------------------------------------------------
(* External collaborators of the ingestion route *)

\* FileProcessor.process_file: the candidates a parsed file may hold. A
\* date is a date object, or text the parser left unconverted.
DateOf(day) == [kind |-> "date", day |-> day]
TextDate    == [kind |-> "text"]

Candidates ==
    {[date |-> DateOf(-10), description |-> "salary",
      amount |-> 100001, type |-> "credit"],
     [date |-> DateOf(-5), description |-> "rent",
      amount |-> 80000, type |-> "debit"],
     [date |-> DateOf(-5), description |-> "rent",
      amount |-> -3000, type |-> "debit"],
     [date |-> DateOf(-10), description |-> "upi",
      amount |-> 500, type |-> "transfer"],
     [date |-> DateOf(-10), description |-> "salary",
      amount |-> 700, type |-> NULL],
     [date |-> TextDate, description |-> "rent",
      amount |-> 900, type |-> "debit"]}

Batches == UNION {[1..n -> Candidates] : n \in 0..MaxBatch}

\* TransactionCategorizer.categorize_transaction: a pure function that
\* always returns a verdict, 'Uncategorized' being the fallback.
categorize_transaction(description, amount) ==
    [category |-> CASE description = "salary" -> "Income"
                    [] description = "rent"   -> "Housing"
                    [] OTHER                  -> "Uncategorized"]

\* supabase_manager.client.auth.get_user(token): the provider's verdict on
\* a bearer token, the subject it verified or NULL.
RemoteUser(token) == IF token = "jwt1" THEN "sub1" ELSE NULL

\* Table user_profiles of the provider, read through
\* .select('id').eq('auth_id', auth_id).single()
Profiles == {[auth_id |-> "sub1", id |-> "prof1"]}

----------------------------------------------------------------------------
(* Ingestion: process_uploaded_file in file_processing.py *)

NoHeader == "no Authorization header"

\* What a request may carry as its Authorization header.
AuthHeaders == PresentedTokens \cup {NoHeader}

\* request.files: no file part, a file of a type that is not allowed, or a
\* statement.
Uploads == {"missing", "not allowed", "statement"}

\* Lines 60-85: local verify first, the provider only when it fails.
AuthUserId(token) ==
    IF VerifyResult(token, clock).success
      THEN VerifyResult(token, clock).user.id
      ELSE RemoteUser(token)

\* Lines 87-102: the provider's profile id when a profile row exists, else
\* the authenticated id itself.
ProfileId(auth_id) ==
    IF \E pr \in Profiles : pr.auth_id = auth_id
      THEN (CHOOSE pr \in Profiles : pr.auth_id = auth_id).id
      ELSE auth_id

\* str(uuid.uuid4()) for an upload: an id no ledger row carries.
NewFileId(led) ==
    "file" \o ToString(Cardinality({led[i].file_id : i \in 1..Len(led)}) + 1)

\* transaction_data['date'].isoformat(): the ISO rendering of a date, an
\* AttributeError for anything else.
IsoformatRaises(date) == date.kind # "date"
isoformat(date) == date.day

\* Lines 193-207
TransactionRecord(c, file_id, profile_id) ==
    [file_id          |-> file_id,
     user_id          |-> profile_id,
     date             |-> isoformat(c.date),
     description      |-> c.description,
     amount           |-> c.amount,
     transaction_type |-> c.type,
     category         |->
         categorize_transaction(c.description, c.amount).category]

RECURSIVE BuildRecords_abort(_, _, _)
\* Variant: a build loop that stops at the first candidate that raises.
BuildRecords_abort(batch, file_id, profile_id) ==
    IF batch = <<>> \/ IsoformatRaises(Head(batch).date) THEN <<>>
    ELSE <<TransactionRecord(Head(batch), file_id, profile_id)>>
            \o BuildRecords_abort(Tail(batch), file_id, profile_id)

RECURSIVE BuildRecords(_, _, _)
\* Step 3, lines 183-214: processed_transactions. A candidate whose record
\* raises is logged and skipped.
BuildRecords(batch, file_id, profile_id) ==
    IF batch = <<>> THEN <<>>
    ELSE LET rest == BuildRecords(Tail(batch), file_id, profile_id)
         IN  IF IsoformatRaises(Head(batch).date)
               THEN rest
               ELSE <<TransactionRecord(Head(batch), file_id, profile_id)>>
                       \o rest

RECURSIVE StoreRecords(_, _)
\* Step 4, lines 217-229: every record goes to store_transaction; a refusal
\* is logged and the loop goes on. Yields the table afterwards and
\* stored_transactions.
StoreRecords(led, recs) ==
    IF recs = <<>> THEN [ledger |-> led, stored |-> 0]
    ELSE LET r    == store_transaction(led, Head(recs))
             rest == StoreRecords(r.ledger, Tail(recs))
         IN  [ledger |-> rest.ledger,
              stored |-> rest.stored + (IF r.success THEN 1 ELSE 0)]

\* Lines 243-249
CategoryBreakdown(recs) ==
    [c \in {recs[i].category : i \in 1..Len(recs)} |->
        LET InCat(t) == t.category = c
        IN  [count  |-> Len(SelectSeq(recs, InCat)),
             amount |-> SumSeq(Amounts(SelectSeq(recs, InCat)))]]

\* Lines 237-266: processing_results of a non-empty upload
ProcessingResults(processed) ==
    LET IsCredit(t) == t.transaction_type = "credit"
        IsDebit(t)  == t.transaction_type = "debit"
        income      == SumSeq(Amounts(SelectSeq(processed, IsCredit)))
        expenses    == SumSeq(Amounts(SelectSeq(processed, IsDebit)))
    IN  [transactions_count |-> Len(processed),
         total_income       |-> income,
         total_expenses     |-> expenses,
         net_savings        |-> income - expenses,
         categories         |-> CategoryBreakdown(processed),
         transactions       |-> processed]

\* Variant: a file without transactions reported as a failure.
NoTransactionsFound_failure(file_id, profile_id) ==
    [op      |-> "upload",
     status  |-> 500,
     batch   |-> <<>>,
     error   |-> "File processing failed",
     file    |-> [id |-> file_id, user_id |-> profile_id,
                  processing_status |-> "error"]]

\* Lines 157-179: the outcome of a file without transactions (batch, the
\* parser's empty answer, stands beside the response)
NoTransactionsFound(file_id, profile_id) ==
    [op      |-> "upload",
     status  |-> 200,
     batch   |-> <<>>,
     message |-> "File processed but no transactions found",
     file    |-> [id |-> file_id, user_id |-> profile_id,
                  processing_status |-> "completed_no_transactions"],
     processing_results |->
        [transactions_count |-> 0,
         total_income       |-> 0,
         total_expenses     |-> 0,
         net_savings        |-> 0,
         categories         |-> <<>>,
         transactions       |-> <<>>],
     suggestions |->
        <<"Try uploading a bank statement with clear transaction data",
          "Ensure the PDF is text-based (not scanned image)",
          "CSV files should have standard banking format",
          "Check that transactions are clearly formatted">>]

UploadError(status, error) ==
    [op |-> "upload", status |-> status, error |-> error]

\* POST /process-file. The candidates are what FileProcessor.process_file
\* returns for the file sent.
process_uploaded_file(auth, upload) ==
    LET auth_id    == AuthUserId(auth)
        profile_id == ProfileId(auth_id)
        file_id    == NewFileId(ledger)
    IN
    /\ CASE auth = NoHeader ->
              /\ ret' = UploadError(401, "Missing or invalid authorization header")
              /\ UNCHANGED ledger
         [] auth # NoHeader /\ auth_id = NULL ->
              /\ ret' = UploadError(401, "Invalid token")
              /\ UNCHANGED ledger
         [] auth # NoHeader /\ auth_id # NULL /\ upload = "missing" ->
              /\ ret' = UploadError(400, "No file uploaded")
              /\ UNCHANGED ledger
         [] auth # NoHeader /\ auth_id # NULL /\ upload = "not allowed" ->
              /\ ret' = UploadError(400, "File type not allowed")
              /\ UNCHANGED ledger
         [] auth # NoHeader /\ auth_id # NULL /\ upload = "statement" ->
              \E batch \in Batches :
                LET processed == BuildRecords(batch, file_id, profile_id)
                    after     == StoreRecords(ledger, processed)
                IN
                IF batch = <<>>
                  THEN /\ ret' = NoTransactionsFound(file_id, profile_id)
                       /\ UNCHANGED ledger
                  ELSE /\ Len(after.ledger) <= MaxLedger
                       /\ ledger' = after.ledger
                       \* Beside the response: the candidates the parser
                       \* returned and the count the handler logs.
                       /\ ret' =
                            [op      |-> "upload",
                             status  |-> 200,
                             message |-> "File processed successfully",
                             batch   |-> batch,
                             file    |-> [id |-> file_id,
                                          user_id |-> profile_id,
                                          processing_status |-> "completed"],
                             stored_transactions |-> after.stored,
                             processing_results  |->
                                 ProcessingResults(processed)]
    /\ UNCHANGED <<clock, users, sessions, regs, registered>>

----------------------------------------------------------------------------
(* Aggregation: dashboard.py *)

\* Variant: the quotient rounded down.
IntDiv_floor(n, d) == n \div d

\* int(x) of a quotient n/d with d > 0: truncation toward zero
IntDiv(n, d) == IF n >= 0 THEN n \div d ELSE -((-n) \div d)

\* Variant: the quotient cut off instead of rounded.
RoundDiv_floor(n, d, tie_up) == n \div d

\* round(n/d) with d > 0, to the nearest integer. The code rounds the
\* binary float nearest to the quotient: an exact tie of the decimal
\* quotient is not a tie of the float, and falls to either neighbour
\* (tie_up) as the float happens to lie.
RoundDiv(n, d, tie_up) ==
    LET q == n \div d
        r == n - q * d
    IN  IF 2 * r < d THEN q
        ELSE IF 2 * r > d THEN q + 1
        ELSE IF tie_up THEN q + 1 ELSE q

\* abs(x)
Abs(x) == IF x < 0 THEN -x ELSE x

\* Lines 203-214: the 'sub' of the token's payload, read without checking
\* the signature; None for a token that is not of the form a.b[.c]
JwtSub(token) ==
    CASE token = "jwt1"       -> "sub1"
      [] token = "forged.jwt" -> "u1"
      [] OTHER                -> NULL

\* get_user_id_from_request
get_user_id_from_request(token) ==
    IF VerifyResult(token, clock).success
      THEN VerifyResult(token, clock).user.id
      ELSE JwtSub(token)

\* get_empty_financial_summary
get_empty_financial_summary ==
    [total_income     |-> 0,
     total_expenses   |-> 0,
     net_savings      |-> 0,
     monthly_income   |-> 0,
     monthly_expenses |-> 0,
     savings_rate_x10 |-> 0]

\* Variant: totals that add every row, whatever its type.
TotalIncome_alltypes(transactions) ==
    SumSeq(Amounts(transactions))

\* Line 241: sum(float(t['amount']) ...) over the credit rows, in units of
\* 1/AmountScale
TotalIncome(transactions) ==
    LET IsCredit(t) == t.transaction_type = "credit"
    IN  SumSeq(Amounts(SelectSeq(transactions, IsCredit)))

\* Line 242: sum(abs(float(t['amount'])) ...) over the debit rows
TotalExpenses(transactions) ==
    LET IsDebit(t) == t.transaction_type = "debit"
        debits     == Amounts(SelectSeq(transactions, IsDebit))
    IN  SumSeq([i \in 1..Len(debits) |-> Abs(debits[i])])

\* calculate_financial_summary_from_data. Money comes in units of
\* 1/AmountScale and goes out, through int(), in whole units;
\* savings_rate, rounded to one decimal, goes out in tenths of a percent.
calculate_financial_summary_from_data(transactions, start_date, end_date, tie_up) ==
    IF transactions = <<>> THEN get_empty_financial_summary
    ELSE
    LET total_income   == TotalIncome(transactions)
        total_expenses == TotalExpenses(transactions)
        net_savings    == total_income - total_expenses
        days           == end_date - start_date
        \* max(1, days / 30.44), as the fraction month_n / month_d
        month_n        == IF days * 100 > 3044 THEN days * 100 ELSE 3044
        month_d        == 3044
    IN  [total_income     |-> IntDiv(total_income, AmountScale),
         total_expenses   |-> IntDiv(total_expenses, AmountScale),
         net_savings      |-> IntDiv(net_savings, AmountScale),
         monthly_income   |->
             IntDiv(total_income * month_d, AmountScale * month_n),
         monthly_expenses |->
             IntDiv(total_expenses * month_d, AmountScale * month_n),
         savings_rate_x10 |->
             IF total_income > 0
               THEN RoundDiv(net_savings * 1000, total_income, tie_up)
               ELSE 0]

\* Lines 91-112: the rows kept by the date filter. Every date of the
\* ledger is an ISO string, so parsing succeeds.
DateFiltered(transactions, start_date) ==
    LET Recent(t) == t.date >= start_date
    IN  SelectSeq(transactions, Recent)

DashboardError(status, error) ==
    [op |-> "dashboard", status |-> status, error |-> error]

\* get_simple_tax_summary, without its timestamp
get_simple_tax_summary ==
    [financial_year      |-> "2023-24",
     gross_income        |-> 0,
     tax_liability       |-> 0,
     recommended_regime  |-> "Not calculated",
     potential_savings   |-> 0,
     deductions_utilized |-> 0]

\* get_simple_cibil_summary, without its timestamp
get_simple_cibil_summary ==
    [current_score  |-> 0,
     previous_score |-> 0,
     trend          |-> "unknown",
     score_category |-> "Not available"]

\* An entry of the insights list; message names the text's template.
Insight(type, message, impact, action_required) ==
    [type            |-> type,
     message         |-> message,
     impact          |-> impact,
     action_required |-> action_required]

\* Variant: the spending insight left out when there is no income.
SpendingInsights_incomeonly(financial_summary) ==
    IF financial_summary.monthly_expenses > 0
         /\ financial_summary.total_income # 0
      THEN <<Insight("spending", "monthly_expenses", "medium", FALSE)>>
      ELSE <<>>

\* Lines 350-357: the spending insight
SpendingInsights(financial_summary) ==
    IF financial_summary.monthly_expenses > 0
      THEN <<Insight("spending", "monthly_expenses", "medium", FALSE)>>
      ELSE <<>>

\* Variant: the ladder without its gap between 20 and 30 percent.
SavingsInsights_nogap(financial_summary) ==
    IF financial_summary.total_income = 0
      THEN <<Insight("info", "upload_documents", "high", TRUE)>>
    ELSE IF financial_summary.savings_rate_x10 < 100
      THEN <<Insight("financial", "increase_savings", "high", TRUE)>>
    ELSE IF financial_summary.savings_rate_x10 < 200
      THEN <<Insight("financial", "good_start", "medium", FALSE)>>
    ELSE <<Insight("financial", "excellent", "positive", FALSE)>>

\* Lines 320-348: the if/elif ladder on total_income and savings_rate
SavingsInsights(financial_summary) ==
    IF financial_summary.total_income = 0
      THEN <<Insight("info", "upload_documents", "high", TRUE)>>
    ELSE IF financial_summary.savings_rate_x10 < 100
      THEN <<Insight("financial", "increase_savings", "high", TRUE)>>
    ELSE IF financial_summary.savings_rate_x10 < 200
      THEN <<Insight("financial", "good_start", "medium", FALSE)>>
    ELSE IF financial_summary.savings_rate_x10 >= 300
      THEN <<Insight("financial", "excellent", "positive", FALSE)>>
    ELSE <<>>

\* generate_insights_from_data
generate_insights_from_data(financial_summary, tax_summary, cibil_summary) ==
    LET insights == SavingsInsights(financial_summary)
                        \o SpendingInsights(financial_summary)
    IN  SubSeq(insights, 1, IF Len(insights) < 4 THEN Len(insights) ELSE 4)

\* s[:n]
Prefix(s, n) == SubSeq(s, 1, IF Len(s) < n THEN Len(s) ELSE n)

\* Lines 289-296: the entry of an upload record
UploadEntry(fd) ==
    [id     |-> fd.id,
     type   |-> "upload",
     amount |-> 0,
     date   |-> fd.uploaded_at]

\* Variant: an entry that keeps the sign of the amount.
TransactionEntry_signed(transaction) ==
    [id          |-> transaction.id,
     type        |-> "transaction",
     description |-> Prefix(transaction.description, DescriptionLimit),
     amount      |-> IntDiv(transaction.amount, AmountScale),
     date        |-> transaction.date]

\* Lines 305-312: the entry of a transaction; description[:50] and
\* int(abs(float(amount))). The description is a sequence of characters.
TransactionEntry(transaction) ==
    [id          |-> transaction.id,
     type        |-> "transaction",
     description |-> Prefix(transaction.description, DescriptionLimit),
     amount      |-> IntDiv(Abs(transaction.amount), AmountScale),
     date        |-> transaction.date]

\* get_recent_activity_from_data: the upload entries, then the entries of
\* the three transactions that sorted(..., reverse=True) puts first (a
\* stable sort: rows of one date stay in the order given), cut to five.
get_recent_activity_from_data(financial_data_records, transactions) ==
    LET uploads == [i \in 1..Len(financial_data_records) |->
                       UploadEntry(financial_data_records[i])]
        sorted_transactions ==
            Prefix(OrderByDateDesc(transactions), TransactionEntries)
        entries == [i \in 1..Len(sorted_transactions) |->
                       TransactionEntry(sorted_transactions[i])]
    IN  Prefix(uploads \o entries, ActivityLimit)

\* What may go wrong while the overview is built: nothing, the read of
\* the ledger (get_local_transactions raises or returns success False),
\* or a later step (an exception that reaches the outer except clause).
Faults == {"none", "storage", "overview"}

\* Variant: an outer except clause that answers with an error.
DashboardFallback_error(auth, user_profile_id, fault) ==
    [op      |-> "dashboard",
     status  |-> 500,
     auth    |-> auth,
     fault   |-> fault,
     user_id |-> user_profile_id,
     summarized |-> <<>>,
     financial_summary |-> get_empty_financial_summary,
     insights |-> <<>>]

\* Lines 162-184: the overview of the outer except clause
DashboardFallback(auth, user_profile_id, fault) ==
    [op      |-> "dashboard",
     status  |-> 200,
     auth    |-> auth,
     fault   |-> fault,
     user_id |-> user_profile_id,
     summarized |-> <<>>,
     financial_summary |-> get_empty_financial_summary,
     insights |-> <<Insight("info", "upload_documents_short", "medium", TRUE)>>]

\* Lines 84-131 and 143: the rows summarized, their summary and the
\* insights; no rows and the empty summary when the read of the ledger
\* failed.
DashboardOverview(auth, user_profile_id, fault, tie_up) ==
    LET end_date        == clock
        start_date      == end_date - WindowDays
        local_result    ==
            get_user_transactions(ledger, user_profile_id, DefaultLimit, 0, <<>>)
        all_transactions ==
            IF fault = "storage" THEN <<>>
            ELSE DateFiltered(local_result.transactions, start_date)
        financial_summary ==
            calculate_financial_summary_from_data(
                all_transactions, start_date, end_date, tie_up)
    IN  [op      |-> "dashboard",
         status  |-> 200,
         auth    |-> auth,
         fault   |-> fault,
         user_id |-> user_profile_id,
         \* Beside the response: the rows the summary was computed from.
         summarized |-> all_transactions,
         financial_summary |-> financial_summary,
         insights |->
             generate_insights_from_data(
                 financial_summary, get_simple_tax_summary,
                 get_simple_cibil_summary)]

\* GET /overview
get_dashboard_overview(auth) ==
    LET user_profile_id == get_user_id_from_request(auth)
    IN
    /\ \E tie_up \in BOOLEAN, fault \in Faults :
        ret' =
         IF auth = NoHeader THEN DashboardError(401, "Authentication required")
         ELSE IF user_profile_id = NULL
           THEN DashboardError(401, "Unable to identify user")
         ELSE IF fault = "overview"
           THEN DashboardFallback(auth, user_profile_id, fault)
         ELSE DashboardOverview(auth, user_profile_id, fault, tie_up)
    /\ UNCHANGED <<clock, users, sessions, regs, registered, ledger>>

----------------------------------------------------------------------------
(* Reads of the ledger store *)

\* Identifiers a caller may ask about.
UserIds == {"u1", "u2", "prof1"}

\* The filters dictionaries of the model: none, one key, all keys.
FilterChoices ==
    {<<>>,
     [category |-> "Housing"],
     [transaction_type |-> "debit"],
     [start_date |-> -5],
     [end_date |-> -10],
     [category |-> "Housing", transaction_type |-> "debit",
      start_date |-> -5, end_date |-> -5]}

\* (limit, offset) pairs: the default page and pages of one row.
Pages == {<<DefaultLimit, 0>>, <<1, 0>>, <<1, 1>>}

\* A call of get_user_transactions
Query(user_id, filters, page) ==
    /\ ret' = [op      |-> "query",
               user_id |-> user_id,
               filters |-> filters,
               page    |-> page,
               result  |-> get_user_transactions(
                               ledger, user_id, page[1], page[2], filters)]
    /\ UNCHANGED <<clock, users, sessions, regs, registered, ledger>>

\* A call of get_transaction_summary
Summary(user_id) ==
    /\ ret' = [op      |-> "summary",
               user_id |-> user_id,
               result  |-> get_transaction_summary(ledger, user_id)]
    /\ UNCHANGED <<clock, users, sessions, regs, registered, ledger>>

----------------------------------------------------------------------------
(* Specifications *)

Init ==
    /\ clock = 0
    /\ users = <<>>
    /\ sessions = <<>>
    /\ regs = [r \in Reqs |-> [pc |-> "idle"]]
    /\ registered = {}
    /\ ledger = <<>>
    /\ ret = NoRet

\* The credential and session store under sequential requests and a
\* running clock.
Next ==
    \/ \E e \in Emails, p \in Passwords : register_user(e, p)
    \/ \E e \in Emails, p \in Passwords : login_user(e, p)
    \/ \E t \in PresentedTokens : verify_token(t)
    \/ Tick

Spec == Init /\ [][Next]_vars

\* Concurrent register_user calls.
NextReg ==
    \/ \E r \in Reqs, e \in Emails, p \in Passwords : RegisterCheck(r, e, p)
    \/ \E r \in Reqs : RegisterInsert(r)

SpecReg == Init /\ [][NextReg]_vars

\* The ledger in use: two users have registered and logged in (a state Spec
\* reaches by two register_user and two login_user calls at clock 0).
InitLedger ==
    /\ clock = 0
    /\ users = <<[id |-> "u1", email |-> "a@x.in",
                  password_hash |-> hash_password("pw1"),
                  name |-> "", phone |-> "", pan |-> ""],
                 [id |-> "u2", email |-> "b@x.in",
                  password_hash |-> hash_password("pw2"),
                  name |-> "", phone |-> "", pan |-> ""]>>
    /\ sessions = <<[token |-> "tok1", user_id |-> "u1",
                     expires_at |-> SessionExpiry(0), created_at |-> 0],
                    [token |-> "tok2", user_id |-> "u2",
                     expires_at |-> SessionExpiry(0), created_at |-> 0]>>
    /\ regs = [r \in Reqs |-> [pc |-> "idle"]]
    /\ registered = {<<"a@x.in", "pw1">>, <<"b@x.in", "pw2">>}
    /\ ledger = <<>>
    /\ ret = NoRet

\* The response leaves for the caller.
Respond ==
    /\ ret # NoRet
    /\ ret' = NoRet
    /\ UNCHANGED <<clock, users, sessions, regs, registered, ledger>>

\* Requests are served one after the other.
NextLedger ==
    \/ /\ ret = NoRet
       /\ \/ \E a \in AuthHeaders, u \in Uploads : process_uploaded_file(a, u)
          \/ \E u \in UserIds, f \in FilterChoices, pg \in Pages : Query(u, f, pg)
          \/ \E u \in UserIds : Summary(u)
          \/ \E a \in AuthHeaders : get_dashboard_overview(a)
    \/ Respond

SpecLedger == InitLedger /\ [][NextLedger]_vars

\* Logout and verification of the sessions of two logged-in users, under
\* a running clock.
NextLogout ==
    \/ \E t \in PresentedTokens : logout_user(t)
    \/ \E t \in PresentedTokens : verify_token(t)
    \/ Tick

SpecLogout == InitLedger /\ [][NextLogout]_vars

\* Amounts of the rows a summary is computed from, in units of
\* 1/AmountScale: small and large, and one below zero.
DrawnAmounts == {1, 16, 100, 150, 170, 190, 200, -60}

\* What the rows hold: every amount in both types under one category,
\* and one amount under another category and under none (the column
\* category is nullable).
DrawnEntries ==
    (DrawnAmounts \X {"credit", "debit"} \X {"Other"})
        \cup ({100} \X {"credit", "debit"} \X {"Housing", NULL})

\* A ledger row of user u1 as store_transaction leaves it.
DrawnRow(i, amount, type, category) ==
    [id               |-> "txn" \o ToString(i),
     user_id          |-> "u1",
     file_id          |-> "file1",
     date             |-> -5,
     description      |-> "entry",
     amount           |-> amount,
     transaction_type |-> type,
     category         |-> category]

\* The ledgers of at most MaxDrawn rows.
DrawnLedgers ==
    UNION {{[i \in 1..n |-> DrawnRow(i, f[i][1], f[i][2], f[i][3])] :
               f \in [1..n -> DrawnEntries]} :
           n \in 0..MaxDrawn}

\* The dashboard over a ledger of any content: user u1 has uploaded rows.
InitSummary ==
    /\ clock = 0
    /\ users = <<[id |-> "u1", email |-> "a@x.in",
                  password_hash |-> hash_password("pw1"),
                  name |-> "", phone |-> "", pan |-> ""]>>
    /\ sessions = <<[token |-> "tok1", user_id |-> "u1",
                     expires_at |-> SessionExpiry(0), created_at |-> 0]>>
    /\ regs = [r \in Reqs |-> [pc |-> "idle"]]
    /\ registered = {<<"a@x.in", "pw1">>}
    /\ ledger \in DrawnLedgers
    /\ ret = NoRet

NextSummary ==
    \/ /\ ret = NoRet
       /\ \/ get_dashboard_overview("tok1")
          \/ \E u \in UserIds : Summary(u)
    \/ Respond

SpecSummary == InitSummary /\ [][NextSummary]_vars

\* Dates around the two ends of the window of a dashboard read at day 0:
\* before it, its first day, inside, its last day, and after it.
WindowDates == {-WindowDays - 1, -WindowDays, -5, 0, 1}

\* The ledgers of at most MaxDrawn rows of user u1 with such dates.
WindowLedgers ==
    UNION {{[i \in 1..n |->
                [DrawnRow(i, 100, f[i][2], "Other") EXCEPT !.date = f[i][1]]] :
               f \in [1..n -> WindowDates \X {"credit", "debit"}]} :
           n \in 0..MaxDrawn}

\* The dashboard over rows dated in and out of the window.
InitWindow ==
    /\ clock = 0
    /\ users = <<[id |-> "u1", email |-> "a@x.in",
                  password_hash |-> hash_password("pw1"),
                  name |-> "", phone |-> "", pan |-> ""]>>
    /\ sessions = <<[token |-> "tok1", user_id |-> "u1",
                     expires_at |-> SessionExpiry(0), created_at |-> 0]>>
    /\ regs = [r \in Reqs |-> [pc |-> "idle"]]
    /\ registered = {<<"a@x.in", "pw1">>}
    /\ ledger \in WindowLedgers
    /\ ret = NoRet

NextWindow ==
    \/ ret = NoRet /\ get_dashboard_overview("tok1")
    \/ Respond

SpecWindow == InitWindow /\ [][NextWindow]_vars

\* Two uploads of one user, served by two workers at once.
Jobs == {"A", "B"}

\* The candidates of a concurrent upload: one that is stored, one that
\* store_transaction refuses, one that the build loop skips.
JobCandidates ==
    {c \in Candidates :
        \/ c.amount = 100001
        \/ c.type = NULL
        \/ c.date = TextDate}

JobBatches == UNION {[1..n -> JobCandidates] : n \in 1..MaxBatch}

\* Variant: one file id for every upload.
JobFileId_shared(j) == "file"

\* str(uuid.uuid4()) for the upload of a worker: an id of its own.
JobFileId(j) == "file" \o j

\* Steps 1-3 of process_uploaded_file in worker j: the caller is
\* authenticated, the file parsed and the records built; nothing is
\* stored yet.
UploadBegin(j, batch) ==
    LET profile_id == ProfileId(AuthUserId("tok1"))
        processed  == BuildRecords(batch, JobFileId(j), profile_id)
    IN
    /\ regs[j].pc = "idle"
    /\ regs' = [regs EXCEPT ![j] =
                  [pc        |-> "storing",
                   file_id   |-> JobFileId(j),
                   processed |-> processed,
                   todo      |-> processed,
                   stored    |-> 0]]
    /\ UNCHANGED <<clock, users, sessions, registered, ledger, ret>>

\* One turn of the loop of step 4 in worker j: one store_transaction, an
\* INSERT committed on a connection of its own.
UploadStore(j) ==
    /\ regs[j].pc = "storing"
    /\ regs[j].todo # <<>>
    /\ LET r == store_transaction(ledger, Head(regs[j].todo))
       IN  /\ ledger' = r.ledger
           /\ regs' = [regs EXCEPT
                 ![j].todo   = Tail(@),
                 ![j].stored = @ + (IF r.success THEN 1 ELSE 0)]
    /\ UNCHANGED <<clock, users, sessions, registered, ret>>

\* The loop is over: worker j answers.
UploadFinish(j) ==
    /\ regs[j].pc = "storing"
    /\ regs[j].todo = <<>>
    /\ regs' = [regs EXCEPT ![j].pc = "done"]
    /\ UNCHANGED <<clock, users, sessions, registered, ledger, ret>>

\* Variant: a worker that deletes the rows of its upload when it stops.
UploadAbandon_rollback(j) ==
    LET Others(row) == row.file_id # regs[j].file_id
    IN
    /\ regs[j].pc = "storing"
    /\ regs' = [regs EXCEPT ![j].pc = "abandoned"]
    /\ ledger' = SelectSeq(ledger, Others)
    /\ UNCHANGED <<clock, users, sessions, registered, ret>>

\* Worker j stops part-way (the process ends, or an error leaves the loop
\* for the handlers of lines 280-305): no handler touches the table.
UploadAbandon(j) ==
    /\ regs[j].pc = "storing"
    /\ regs' = [regs EXCEPT ![j].pc = "abandoned"]
    /\ UNCHANGED <<clock, users, sessions, registered, ledger, ret>>

\* Two workers ingest uploads of user u1 while the ledger is read.
InitConcurrent ==
    /\ clock = 0
    /\ users = <<[id |-> "u1", email |-> "a@x.in",
                  password_hash |-> hash_password("pw1"),
                  name |-> "", phone |-> "", pan |-> ""]>>
    /\ sessions = <<[token |-> "tok1", user_id |-> "u1",
                     expires_at |-> SessionExpiry(0), created_at |-> 0]>>
    /\ regs = [j \in Jobs |-> [pc |-> "idle"]]
    /\ registered = {<<"a@x.in", "pw1">>}
    /\ ledger = <<>>
    /\ ret = NoRet

NextConcurrent ==
    \/ \E j \in Jobs, batch \in JobBatches : UploadBegin(j, batch)
    \/ \E j \in Jobs : UploadStore(j)
    \/ \E j \in Jobs : UploadFinish(j)
    \/ \E j \in Jobs : UploadAbandon(j)
    \/ ret = NoRet /\ Summary("u1")
    \/ ret = NoRet /\ get_dashboard_overview("tok1")
    \/ Respond

SpecConcurrent == InitConcurrent /\ [][NextConcurrent]_vars

\* Tables transactions and user_files of the provider, read by the two
\* routes below: rows of the profile of the provider's user and rows of
\* another profile.
RemoteTransactions ==
    <<[id |-> "r1", user_id |-> "prof1", file_id |-> "rf1", date |-> -10,
       description |-> "salary", amount |-> 100001,
       transaction_type |-> "credit", category |-> "Income"],
      [id |-> "r2", user_id |-> "prof2", file_id |-> "rf2", date |-> -10,
       description |-> "salary", amount |-> 300,
       transaction_type |-> "credit", category |-> "Income"],
      [id |-> "r3", user_id |-> "prof1", file_id |-> "rf1", date |-> -5,
       description |-> "rent", amount |-> 80000,
       transaction_type |-> "debit", category |-> "Housing"],
      [id |-> "r4", user_id |-> "prof2", file_id |-> "rf2", date |-> -5,
       description |-> "rent", amount |-> 200,
       transaction_type |-> "debit", category |-> "Housing"]>>

RemoteFiles ==
    <<[id |-> "rf1", user_id |-> "prof1"],
      [id |-> "rf2", user_id |-> "prof2"]>>

\* The user_id a request may carry in its path.
PathUserIds == {"prof1", "prof2", "sub1", "u1"}

\* ?page= and ?per_page= of a request.
PageNumbers == {1, 2}
PerPages    == {1, 50, 101}

RouteError(op, status, error) ==
    [op |-> op, status |-> status, error |-> error]

\* GET /transactions/<user_id>
TransactionsRoute(auth, user_id, filters, page, per_page_arg) ==
    LET per_page == IF per_page_arg < MaxPageSize THEN per_page_arg
                                                  ELSE MaxPageSize
        offset   == (page - 1) * per_page
        Keep(row) == RowMatches(row, user_id, filters)
        data     == LimitOffset(
                        OrderByDateDesc(SelectSeq(RemoteTransactions, Keep)),
                        per_page, offset)
    IN
    /\ ret' =
         IF auth = NoHeader
           THEN RouteError("transactions", 401,
                           "Missing or invalid authorization header")
         ELSE IF RemoteUser(auth) = NULL
           THEN RouteError("transactions", 401, "Invalid token")
         ELSE [op           |-> "transactions",
               status       |-> 200,
               auth         |-> auth,
               user_id      |-> user_id,
               filters      |-> filters,
               transactions |-> data,
               pagination   |-> [page     |-> page,
                                 per_page |-> per_page,
                                 count    |-> Len(data)]]
    /\ UNCHANGED <<clock, users, sessions, regs, registered, ledger>>

\* GET /summary/<user_id>. savings_rate, a float, is the quotient
\* num / den.
get_processing_summary(auth, user_id) ==
    LET OfUser(row)  == row.user_id = user_id
        files        == SelectSeq(RemoteFiles, OfUser)
        transactions == SelectSeq(RemoteTransactions, OfUser)
        IsCredit(t)  == t.transaction_type = "credit"
        IsDebit(t)   == t.transaction_type = "debit"
        total_income   == SumSeq(Amounts(SelectSeq(transactions, IsCredit)))
        total_expenses == SumSeq(Amounts(SelectSeq(transactions, IsDebit)))
        net_savings    == total_income - total_expenses
    IN
    /\ ret' =
         IF auth = NoHeader
           THEN RouteError("processing_summary", 401,
                           "Missing or invalid authorization header")
         ELSE IF RemoteUser(auth) = NULL
           THEN RouteError("processing_summary", 401, "Invalid token")
         ELSE [op           |-> "processing_summary",
               status       |-> 200,
               auth         |-> auth,
               user_id      |-> user_id,
               \* Beside the response: the rows the totals are taken from.
               transactions |-> transactions,
               summary      |->
                   [total_files        |-> Len(files),
                    total_transactions |-> Len(transactions),
                    total_income       |-> total_income,
                    total_expenses     |-> total_expenses,
                    net_savings        |-> net_savings,
                    savings_rate       |->
                        IF total_income > 0
                          THEN [num |-> net_savings * 100,
                                den |-> total_income]
                          ELSE [num |-> 0, den |-> 1],
                    categories         |-> CategoryBreakdown(transactions)]]
    /\ UNCHANGED <<clock, users, sessions, regs, registered, ledger>>

\* The list and summary routes, one request at a time.
NextRoutes ==
    \/ /\ ret = NoRet
       /\ \/ \E a \in AuthHeaders, u \in PathUserIds, f \in FilterChoices,
                page \in PageNumbers, per_page \in PerPages :
                  TransactionsRoute(a, u, f, page, per_page)
          \/ \E a \in AuthHeaders, u \in PathUserIds :
                  get_processing_summary(a, u)
    \/ Respond

SpecRoutes == InitLedger /\ [][NextRoutes]_vars

\* A description of n characters.
Text(n) == [i \in 1..n |-> "x"]

\* The transactions recent activity is computed from: (date, length of
\* the description, amount).
ActivityEntries == {<<-10, 3, 201>>, <<-5, 51, -3>>, <<-5, 50, 7>>, <<-1, 3, 1>>}

\* The lists of at most MaxActivityRows such transactions.
ActivityLedgers ==
    UNION {{[i \in 1..n |->
                [DrawnRow(i, f[i][3], "debit", "Other") EXCEPT
                    !.date = f[i][1], !.description = Text(f[i][2])]] :
               f \in [1..n -> ActivityEntries]} :
           n \in 0..MaxActivityRows}

\* The upload records of a caller who has uploaded n files.
UploadRecords(n) ==
    [i \in 1..n |-> [id |-> "file" \o ToString(i), uploaded_at |-> -i]]

\* A call of get_recent_activity_from_data
recent_activity(n) ==
    /\ ret' = [op      |-> "recent_activity",
               uploads |-> UploadRecords(n),
               result  |-> get_recent_activity_from_data(
                               UploadRecords(n), ledger)]
    /\ UNCHANGED <<clock, users, sessions, regs, registered, ledger>>

\* Recent activity over any transactions and any number of uploads.
InitActivity ==
    /\ clock = 0
    /\ users = <<[id |-> "u1", email |-> "a@x.in",
                  password_hash |-> hash_password("pw1"),
                  name |-> "", phone |-> "", pan |-> ""]>>
    /\ sessions = <<[token |-> "tok1", user_id |-> "u1",
                     expires_at |-> SessionExpiry(0), created_at |-> 0]>>
    /\ regs = [r \in Reqs |-> [pc |-> "idle"]]
    /\ registered = {<<"a@x.in", "pw1">>}
    /\ ledger \in ActivityLedgers
    /\ ret = NoRet

NextActivity ==
    \/ ret = NoRet /\ \E n \in 0..MaxUploads : recent_activity(n)
    \/ Respond

SpecActivity == InitActivity /\ [][NextActivity]_vars

\* A ledger of n rows of user u1.
LongLedger(n) == [i \in 1..n |-> DrawnRow(i, 100, "debit", "Other")]

\* (limit, offset) pairs around the page size of the route: the default,
\* the page size, one more, and pages of one row.
LongPages ==
    {<<DefaultLimit, 0>>, <<MaxPageSize, 0>>, <<MaxPageSize + 1, 0>>,
     <<MaxPageSize, 1>>, <<1, 0>>, <<1, 1>>}

\* Reads of a ledger that has grown to any length up to MaxRows.
InitPages ==
    /\ clock = 0
    /\ users = <<[id |-> "u1", email |-> "a@x.in",
                  password_hash |-> hash_password("pw1"),
                  name |-> "", phone |-> "", pan |-> ""]>>
    /\ sessions = <<[token |-> "tok1", user_id |-> "u1",
                     expires_at |-> SessionExpiry(0), created_at |-> 0]>>
    /\ regs = [r \in Reqs |-> [pc |-> "idle"]]
    /\ registered = {<<"a@x.in", "pw1">>}
    /\ ledger \in {LongLedger(n) : n \in 0..MaxRows}
    /\ ret = NoRet

NextPages ==
    \/ ret = NoRet /\ \E pg \in LongPages : Query("u1", <<>>, pg)
    \/ Respond

SpecPages == InitPages /\ [][NextPages]_vars

\* Two registered users with a session each and a ledger row; the rows of
\* users carry the column updated_at.
InitProfile ==
    /\ clock = 0
    /\ users = <<[id |-> "u1", email |-> "a@x.in",
                  password_hash |-> hash_password("pw1"),
                  name |-> "", phone |-> "", pan |-> "", updated_at |-> 0],
                 [id |-> "u2", email |-> "b@x.in",
                  password_hash |-> hash_password("pw2"),
                  name |-> "", phone |-> "", pan |-> "", updated_at |-> 0]>>
    /\ sessions = <<[token |-> "tok1", user_id |-> "u1",
                     expires_at |-> SessionExpiry(0), created_at |-> 0],
                    [token |-> "tok2", user_id |-> "u2",
                     expires_at |-> SessionExpiry(0), created_at |-> 0]>>
    /\ regs = [r \in Reqs |-> [pc |-> "idle"]]
    /\ registered = {<<"a@x.in", "pw1">>, <<"b@x.in", "pw2">>}
    /\ ledger = LongLedger(1)
    /\ ret = NoRet

NextProfile ==
    \/ \E u \in UserIds, d \in ProfileUpdates : update_user_profile(u, d)
    \/ \E u \in UserIds : get_user_profile(u)
    \/ clock < MaxProfileClock /\ Tick

SpecProfile == InitProfile /\ [][NextProfile]_vars

----------------------------------------------------------------------------
(* Properties of the credential and session store *)

\* C1: a session minted at time t expires at t + 7 days, and verify(token)
\* succeeds exactly while now < expiry; at now = expiry and later it fails.
C1_VerifyUntilExpiry ==
    /\ \A j \in 1..Len(sessions) :
          sessions[j].expires_at = sessions[j].created_at + 7
    /\ ret.op = "verify" =>
          (ret.result.success <=>
              \E j \in 1..Len(sessions) :
                  /\ sessions[j].token = ret.token
                  /\ clock < sessions[j].created_at + 7)

\* verify is asked about a session at the very instant of its expiry and
\* refuses it.
C1_Witness ==
    /\ ret.op = "verify"
    /\ ~ret.result.success
    /\ \E j \in 1..Len(sessions) :
          sessions[j].token = ret.token /\ clock = sessions[j].created_at + 7

\* C2: authenticate(email, password) succeeds exactly for the registered
\* (email, password) pairs; on success the new session belongs to the user
\* registered under that email, and any other password gets the
\* invalid-credentials result.
C2_AuthenticateRegistered ==
    ret.op = "login" =>
        /\ ret.success <=> <<ret.email, ret.password>> \in registered
        /\ ret.success =>
              \E i \in 1..Len(users), j \in 1..Len(sessions) :
                  /\ users[i].email = ret.email
                  /\ ret.user_id = users[i].id
                  /\ sessions[j].token = ret.access_token
                  /\ sessions[j].user_id = users[i].id
        /\ ~ret.success => ret.error = "Invalid credentials"

\* A registered email is presented with a password other than its own and
\* is refused.
C2_Witness ==
    /\ ret.op = "login"
    /\ ~ret.success
    /\ \E p \in Passwords : p # ret.password /\ <<ret.email, p>> \in registered

NoDuplicateEmail ==
    \A i, k \in 1..Len(users) : users[i].email = users[k].email => i = k

\* A step in which a register call returns.
RegisterReturns == ret'.op = "register" /\ <<users, regs, ret>> # <<users', regs', ret'>>

----------------------------------------------------------------------------
(* Properties of the ledger store and of ingestion *)

RECURSIVE SumAt(_, _)
\* The sum of the amounts of the rows of a list at the positions of a set.
SumAt(rows, S) ==
    IF S = {} THEN 0
    ELSE LET i == CHOOSE k \in S : TRUE
         IN  rows[i].amount + SumAt(rows, S \ {i})

RowsOf(rows, user_id) == {i \in 1..Len(rows) : rows[i].user_id = user_id}
TypedAt(rows, S, type) == {i \in S : rows[i].transaction_type = type}

\* C4: every row query(u, ...) returns has user_id = u, whatever the other
\* filters, and summary(u) counts and adds the rows of u and no others.
C4_OnlyOwnRows ==
    /\ ret.op = "query" =>
          \A i \in 1..Len(ret.result.transactions) :
              ret.result.transactions[i].user_id = ret.user_id
    /\ ret.op = "summary" =>
          LET mine == RowsOf(ledger, ret.user_id)
              sm   == ret.result.summary
          IN  /\ sm.total_transactions = Cardinality(mine)
              /\ sm.total_income = SumAt(ledger, TypedAt(ledger, mine, "credit"))
              /\ sm.total_expenses = SumAt(ledger, TypedAt(ledger, mine, "debit"))
              /\ \A c \in DOMAIN sm.categories :
                    sm.categories[c].count =
                        Cardinality({i \in mine : ledger[i].category = c})

\* A filtered query returns a row of its user while another user holds a
\* row with the same category, type and date.
C4_Witness ==
    /\ ret.op = "query"
    /\ DOMAIN ret.filters = {"category", "transaction_type", "start_date", "end_date"}
    /\ ret.result.transactions # <<>>
    /\ \E i \in 1..Len(ledger) :
          /\ ledger[i].user_id # ret.user_id
          /\ ledger[i].category = ret.result.transactions[1].category
          /\ ledger[i].transaction_type =
                 ret.result.transactions[1].transaction_type
          /\ ledger[i].date = ret.result.transactions[1].date

\* C5: every ledger row has amount >= 0 and type credit or debit (append
\* rejects anything else).
C5_LedgerRowsValid ==
    \A i \in 1..Len(ledger) :
        /\ ledger[i].amount >= 0
        /\ ledger[i].transaction_type \in {"credit", "debit"}

\* A candidate that cannot be persisted: its date is no date (the record
\* cannot be built) or a NOT NULL column would be empty (the store refuses).
CandidateFails(c) == c.date.kind # "date" \/ c.type = NULL \/ c.description = NULL

\* The ledger rows an upload left, in insertion order.
RowsOfFile(file_id) ==
    LET OfFile(row) == row.file_id = file_id
    IN  SelectSeq(ledger, OfFile)

UploadDone == ret.op = "upload" /\ ret.status = 200 /\ ret.batch # <<>>

\* C6: after a batch, the ledger rows of the upload are exactly the
\* candidates that did not fail, one row each and in batch order, whatever
\* failed before or after them; the count of stored rows is recorded.
C6_FailureSkipsOneCandidate ==
    UploadDone =>
        LET Good(c) == ~CandidateFails(c)
            good    == SelectSeq(ret.batch, Good)
            rows    == RowsOfFile(ret.file.id)
        IN  /\ Len(rows) = Len(good)
            /\ ret.stored_transactions = Len(good)
            /\ \A k \in 1..Len(good) :
                  /\ rows[k].user_id = ret.file.user_id
                  /\ rows[k].date = good[k].date.day
                  /\ rows[k].description = good[k].description
                  /\ rows[k].amount = good[k].amount
                  /\ rows[k].transaction_type = good[k].type

\* A batch whose first candidate fails and whose second is persisted.
C6_Witness ==
    /\ UploadDone
    /\ Len(ret.batch) = 2
    /\ CandidateFails(ret.batch[1])
    /\ ~CandidateFails(ret.batch[2])
    /\ Len(RowsOfFile(ret.file.id)) = 1

\* C7: the accepted count of an upload is the number of rows it persisted,
\* and its totals and category breakdown are computed over those rows.
C7_ResultOverPersisted ==
    UploadDone =>
        LET rows == RowsOfFile(ret.file.id)
            all  == 1..Len(rows)
            pr   == ret.processing_results
        IN  /\ pr.transactions_count = Len(rows)
            /\ pr.total_income = SumAt(rows, TypedAt(rows, all, "credit"))
            /\ pr.total_expenses = SumAt(rows, TypedAt(rows, all, "debit"))
            /\ pr.net_savings = pr.total_income - pr.total_expenses
            /\ DOMAIN pr.categories = {rows[i].category : i \in all}
            /\ \A c \in DOMAIN pr.categories :
                  pr.categories[c].count =
                      Cardinality({i \in all : rows[i].category = c})

\* How often a (date, amount) pair occurs in a list of transactions.
PairCount(rows, date, amount) ==
    Cardinality({i \in 1..Len(rows) :
                    rows[i].date = date /\ rows[i].amount = amount})

\* C8: the accepted transactions an upload returns and the rows query
\* returns for that user and upload agree in count and in their
\* (date, amount) pairs, counted with multiplicity.
C8_RoundTrip ==
    UploadDone =>
        LET listed  == ret.processing_results.transactions
            OfFile(row) == row.file_id = ret.file.id
            queried == SelectSeq(
                get_user_transactions(ledger, ret.file.user_id,
                                      DefaultLimit, 0, <<>>).transactions,
                OfFile)
        IN  /\ Len(listed) = Len(queried)
            /\ \A i \in 1..Len(listed) :
                  PairCount(listed, listed[i].date, listed[i].amount) =
                      PairCount(queried, listed[i].date, listed[i].amount)

\* C9: when the parser returns no candidate the upload answers 200 with
\* the 'no transactions found' message, zero count and totals, an empty
\* breakdown and at least one suggestion, and writes nothing.
C9_NoTransactionsFound ==
    [][(ret'.op = "upload" /\ "batch" \in DOMAIN ret' /\ ret'.batch = <<>>) =>
          /\ ret'.status = 200
          /\ ret'.message = "File processed but no transactions found"
          /\ ret'.processing_results.transactions_count = 0
          /\ ret'.processing_results.total_income = 0
          /\ ret'.processing_results.total_expenses = 0
          /\ ret'.processing_results.net_savings = 0
          /\ DOMAIN ret'.processing_results.categories = {}
          /\ ret'.processing_results.transactions = <<>>
          /\ Len(ret'.suggestions) > 0
          /\ ledger' = ledger]_vars

\* An empty file is answered while the ledger already holds rows.
C9_Witness ==
    /\ ret.op = "upload"
    /\ ret.status = 200
    /\ "batch" \in DOMAIN ret
    /\ ret.batch = <<>>
    /\ Len(ret.suggestions) > 0
    /\ ledger # <<>>

SummaryDone ==
    ret.op = "dashboard" /\ ret.status = 200 /\ ret.summarized # <<>>

\* C10 as stated, on rows whose amounts are not negative: total_income is
\* the sum of the credit amounts and total_expenses the sum of the debit
\* amounts of the summarized rows.
C10_TotalsAreSums ==
    (SummaryDone /\ \A i \in 1..Len(ret.summarized) : ret.summarized[i].amount >= 0) =>
        LET rows == ret.summarized
            all  == 1..Len(rows)
        IN  /\ ret.financial_summary.total_income * AmountScale =
                   SumAt(rows, TypedAt(rows, all, "credit"))
            /\ ret.financial_summary.total_expenses * AmountScale =
                   SumAt(rows, TypedAt(rows, all, "debit"))

RECURSIVE AbsSumAt(_, _)
\* The sum of the absolute amounts of the rows at the positions of a set.
AbsSumAt(rows, S) ==
    IF S = {} THEN 0
    ELSE LET i == CHOOSE k \in S : TRUE
         IN  (IF rows[i].amount < 0 THEN -rows[i].amount ELSE rows[i].amount)
                 + AbsSumAt(rows, S \ {i})

\* The whole number x with x <= n/d < x + 1 for n >= 0, and -Whole(-n, d)
\* below zero.
IsWholePart(x, n, d) ==
    IF n >= 0 THEN x * d <= n /\ n < (x + 1) * d
              ELSE x * d >= n /\ n > (x - 1) * d

\* C10, amended: total_income is the sum of the credit amounts with its
\* fractional part dropped, and total_expenses the sum of the absolute
\* values of the debit amounts with its fractional part dropped.
C10_TotalsAreTruncatedSums ==
    SummaryDone =>
        LET rows == ret.summarized
            all  == 1..Len(rows)
        IN  /\ IsWholePart(ret.financial_summary.total_income,
                           SumAt(rows, TypedAt(rows, all, "credit")),
                           AmountScale)
            /\ IsWholePart(ret.financial_summary.total_expenses,
                           AbsSumAt(rows, TypedAt(rows, all, "debit")),
                           AmountScale)

\* A summary over a credit row and a debit row.
C10_Witness ==
    /\ SummaryDone
    /\ \E i, k \in 1..Len(ret.summarized) :
          /\ ret.summarized[i].transaction_type = "credit"
          /\ ret.summarized[k].transaction_type = "debit"
    /\ ret.financial_summary.total_income > 0
    /\ ret.financial_summary.total_expenses > 0

----------------------------------------------------------------------------
(* Properties of the savings rate and the insights *)

\* The rows a summary was computed from hold no negative amount.
NoNegativeAmount ==
    \A i \in 1..Len(ret.summarized) : ret.summarized[i].amount >= 0

\* x is n/d rounded to a nearest integer (d > 0).
IsNearest(x, n, d) == 2 * Abs(x * d - n) <= d

\* C11 as stated, on the fields of the summary returned: savings_rate is
\* net_savings / total_income * 100 rounded to one decimal when
\* total_income > 0, and 0 when total_income is 0.
C11_RateOfReportedFields ==
    (SummaryDone /\ NoNegativeAmount) =>
        LET fs == ret.financial_summary
        IN  /\ fs.total_income > 0 =>
                  IsNearest(fs.savings_rate_x10, fs.net_savings * 1000,
                            fs.total_income)
            /\ fs.total_income = 0 => fs.savings_rate_x10 = 0

\* C11, amended: savings_rate is net / income * 100 rounded to one decimal,
\* where income is the sum of the credit amounts and net is income minus
\* the sum of the absolute debit amounts, both before their fractional
\* parts are dropped; it is 0 when that income is not positive.
C11_RateOfUntruncatedSums ==
    SummaryDone =>
        LET rows     == ret.summarized
            all      == 1..Len(rows)
            income   == SumAt(rows, TypedAt(rows, all, "credit"))
            expenses == AbsSumAt(rows, TypedAt(rows, all, "debit"))
            rate     == ret.financial_summary.savings_rate_x10
        IN  /\ income > 0 => IsNearest(rate, (income - expenses) * 1000, income)
            /\ income <= 0 => rate = 0

\* A summary whose rate is not a whole percent: 16 in and 1 out (in units
\* of 1/AmountScale) has the rate 93.75, reported as 93.7 or 93.8.
C11_Witness ==
    /\ SummaryDone
    /\ ret.financial_summary.total_income > 0
    /\ ret.financial_summary.total_expenses >= 0
    /\ ret.financial_summary.savings_rate_x10 % 10 # 0

DashboardDone == ret.op = "dashboard" /\ ret.status = 200

\* The savings-related insights of a list.
SavingsRelated(insights) ==
    LET IsFinancial(x) == x.type = "financial"
    IN  SelectSeq(insights, IsFinancial)

\* The list holds one savings-related insight, of this impact.
OneSavingsInsight(insights, impact, action_required) ==
    /\ Len(SavingsRelated(insights)) = 1
    /\ SavingsRelated(insights)[1].impact = impact
    /\ SavingsRelated(insights)[1].action_required = action_required

\* C12: for a summary with total_income > 0 the insights hold at most one
\* savings-related insight, by the first rule that matches: impact high
\* with action required when savings_rate < 10, impact medium without
\* action when 10 <= savings_rate < 20, none when 20 <= savings_rate < 30,
\* impact positive without action when savings_rate >= 30.
C12_SavingsLadder ==
    (DashboardDone /\ ret.financial_summary.total_income > 0) =>
        LET rate == ret.financial_summary.savings_rate_x10
        IN  /\ Len(SavingsRelated(ret.insights)) <= 1
            /\ rate < 100 => OneSavingsInsight(ret.insights, "high", TRUE)
            /\ (100 <= rate /\ rate < 200) =>
                  OneSavingsInsight(ret.insights, "medium", FALSE)
            /\ (200 <= rate /\ rate < 300) =>
                  SavingsRelated(ret.insights) = <<>>
            /\ rate >= 300 =>
                  OneSavingsInsight(ret.insights, "positive", FALSE)

\* A summary with income whose rate lies in the band from 20 to 30: no
\* savings-related insight, the spending insight alone.
C12_Witness ==
    /\ DashboardDone
    /\ ret.financial_summary.total_income > 0
    /\ ret.financial_summary.savings_rate_x10 >= 200
    /\ ret.financial_summary.savings_rate_x10 < 300
    /\ Len(ret.insights) = 1
    /\ ret.insights[1].type = "spending"

\* C13 as stated: for a summary with total_income = 0, whatever its other
\* fields, the insights are exactly one insight, of type info with
\* action_required true.
C13_ExactlyOneInfoInsight ==
    (DashboardDone /\ ret.financial_summary.total_income = 0) =>
        /\ Len(ret.insights) = 1
        /\ ret.insights[1].type = "info"
        /\ ret.insights[1].action_required

\* C13, amended: for a summary with total_income = 0 the first insight is
\* of type info with action_required true; it is the only one when
\* monthly_expenses is 0, and is followed by the spending insight, and
\* nothing else, when monthly_expenses > 0.
C13_InfoInsightFirst ==
    (DashboardDone /\ ret.financial_summary.total_income = 0) =>
        /\ Len(ret.insights) >= 1
        /\ ret.insights[1].type = "info"
        /\ ret.insights[1].action_required
        /\ ret.financial_summary.monthly_expenses = 0 => Len(ret.insights) = 1
        /\ ret.financial_summary.monthly_expenses > 0 =>
              /\ Len(ret.insights) = 2
              /\ ret.insights[2].type = "spending"
              /\ ~ret.insights[2].action_required

\* A summary of debit rows only: no income, expenses every month.
C13_Witness ==
    /\ DashboardDone
    /\ ret.summarized # <<>>
    /\ ret.financial_summary.total_income = 0
    /\ ret.financial_summary.monthly_expenses > 0
    /\ Len(ret.insights) = 2

----------------------------------------------------------------------------
(* Properties of the sessions under verification, login and logout *)

\* C14: verify(token), whether it succeeds or fails, leaves the session
\* store unchanged, and no step changes the expiry a session was minted
\* with: after any number of verify calls it is created_at + SessionDays.
C14_VerifyLeavesSessions ==
    [][/\ ret'.op = "verify" => sessions' = sessions
       /\ \A j \in 1..Len(sessions) :
             /\ j <= Len(sessions')
             /\ sessions'[j].token = sessions[j].token
             /\ sessions'[j].expires_at = sessions[j].expires_at
             /\ sessions'[j].expires_at =
                   SessionExpiry(sessions'[j].created_at)]_vars

\* A verification that succeeds days after the session was minted.
C14_Witness ==
    /\ ret.op = "verify"
    /\ ret.result.success
    /\ \E j \in 1..Len(sessions) :
          /\ sessions[j].token = ret.token
          /\ sessions[j].created_at + 2 <= clock
          /\ sessions[j].expires_at = SessionExpiry(sessions[j].created_at)

\* Every issued token passes verify, for its own user, while the clock is
\* before its own expiry, and the issued tokens are pairwise distinct.
IssuedTokensLive ==
    /\ \A j \in 1..Len(sessions) :
          clock < sessions[j].expires_at =>
              /\ VerifyResult(sessions[j].token, clock).success
              /\ VerifyResult(sessions[j].token, clock).user.id =
                     sessions[j].user_id
    /\ \A j, k \in 1..Len(sessions) :
          sessions[j].token = sessions[k].token => j = k

\* A step that changes the sessions table adds one session with a token
\* that was not issued before, and leaves the earlier sessions in place.
PriorSessionsKept ==
    sessions' # sessions =>
        /\ Len(sessions') = Len(sessions) + 1
        /\ SubSeq(sessions', 1, Len(sessions)) = sessions
        /\ \A j \in 1..Len(sessions) :
              sessions[j].token # sessions'[Len(sessions')].token

\* C15: a successful authenticate leaves every session issued before in
\* place; after any number of logins each issued token passes verify
\* until its own expiry, and all issued tokens are pairwise distinct.
C15_PriorSessionsStay ==
    []IssuedTokensLive /\ [][PriorSessionsKept]_vars

\* A second login of one user while the first session is live.
C15_Witness ==
    /\ ret.op = "login"
    /\ ret.success
    /\ Len(sessions) = 2
    /\ sessions[1].user_id = sessions[2].user_id
    /\ sessions[1].token # sessions[2].token
    /\ sessions[2].token = ret.access_token
    /\ sessions[1].created_at < sessions[2].created_at
    /\ clock < sessions[1].expires_at
    /\ VerifyResult(sessions[1].token, clock).success

\* C16: after an explicit logout of a session token, verify(token) fails,
\* even while the clock is before the token's expiry. Stated for the
\* verification that follows the logout at once.
C16_LogoutInvalidates ==
    [][(/\ ret.op = "logout"
        /\ ret'.op = "verify"
        /\ ret'.token = ret.token) => ~ret'.result.success]_vars

----------------------------------------------------------------------------
(* Properties of the reads of the ledger *)

\* The position of a row in the table: rows are inserted at the end.
InsertedAt(row) == CHOOSE i \in 1..Len(ledger) : ledger[i].id = row.id

\* C17: query returns rows in descending date order, and rows of equal
\* date most-recently-inserted first.
C17_NewestFirstOnTies ==
    ret.op = "query" =>
        LET rows == ret.result.transactions
        IN  \A i, k \in 1..Len(rows) :
                i < k =>
                    \/ rows[i].date > rows[k].date
                    \/ /\ rows[i].date = rows[k].date
                       /\ InsertedAt(rows[i]) > InsertedAt(rows[k])

\* C18: whatever limit the caller passes or omits, a query returns at
\* most 100 rows.
C18_AtMostPageSize ==
    ret.op = "query" => Len(ret.result.transactions) <= MaxPageSize

RECURSIVE SumCounts(_, _)
\* The sum of the counts of the categories of a set.
SumCounts(categories, S) ==
    IF S = {} THEN 0
    ELSE LET c == CHOOSE x \in S : TRUE
         IN  categories[c].count + SumCounts(categories, S \ {c})

\* C19 as stated, its breakdown: the per-category counts of summary(u)
\* add up to the count of the rows of u.
C19_BreakdownCoversEveryRow ==
    ret.op = "summary" =>
        LET sm == ret.result.summary
        IN  SumCounts(sm.categories, DOMAIN sm.categories) =
                sm.total_transactions

\* The rows of a user at which the category is c.
InCategory(rows, S, c) == {i \in S : rows[i].category = c}

\* C19, amended: summary(u) returns the number of the rows of u, the sums
\* of the amounts of u's credit rows and of u's debit rows, and a
\* breakdown with one entry for each category some row of u carries,
\* counting and adding the rows of that category; rows without category
\* are in the count and in no entry. The output is determined by the
\* ledger, so two calls with no write in between return the same.
C19_SummaryOfLedger ==
    ret.op = "summary" =>
        LET sm     == ret.result.summary
            mine   == RowsOf(ledger, ret.user_id)
            tagged == {i \in mine : ledger[i].category # NULL}
        IN  /\ ret.result.success
            /\ sm.total_transactions = Cardinality(mine)
            /\ sm.total_income = SumAt(ledger, TypedAt(ledger, mine, "credit"))
            /\ sm.total_expenses = SumAt(ledger, TypedAt(ledger, mine, "debit"))
            /\ sm.net_savings = sm.total_income - sm.total_expenses
            /\ DOMAIN sm.categories = {ledger[i].category : i \in tagged}
            /\ \A c \in DOMAIN sm.categories :
                  /\ sm.categories[c].count =
                        Cardinality(InCategory(ledger, mine, c))
                  /\ sm.categories[c].amount =
                        SumAt(ledger, InCategory(ledger, mine, c))
            /\ SumCounts(sm.categories, DOMAIN sm.categories) =
                  Cardinality(tagged)

\* A summary over a row with a category and a row without.
C19_Witness ==
    /\ ret.op = "summary"
    /\ ret.result.summary.total_transactions = 2
    /\ \E i, k \in RowsOf(ledger, ret.user_id) :
          ledger[i].category = NULL /\ ledger[k].category # NULL
    /\ Cardinality(DOMAIN ret.result.summary.categories) = 1

----------------------------------------------------------------------------
(* Properties of the profile update *)

\* The value a profile column has after an update.
FieldAfter(old, profile_data, key) ==
    IF key \in DOMAIN profile_data THEN profile_data[key] ELSE old

\* C20: update_profile changes exactly the fields present in the partial
\* update, among name, phone and pan, plus updated_at, on the row of the
\* target user; id, email, password hash and the absent profile fields of
\* that row, every other user, every session and every transaction stay
\* as they were.
C20_UpdateProfileFrame ==
    [][ret'.op = "update_profile" =>
          /\ Len(users') = Len(users)
          /\ \A i \in 1..Len(users) :
                IF users[i].id = ret'.user_id
                  THEN /\ users'[i].id = users[i].id
                       /\ users'[i].email = users[i].email
                       /\ users'[i].password_hash = users[i].password_hash
                       /\ users'[i].name =
                             FieldAfter(users[i].name, ret'.profile_data, "name")
                       /\ users'[i].phone =
                             FieldAfter(users[i].phone, ret'.profile_data, "phone")
                       /\ users'[i].pan =
                             FieldAfter(users[i].pan, ret'.profile_data, "pan")
                       /\ users'[i].updated_at = clock
                  ELSE users'[i] = users[i]
          /\ sessions' = sessions
          /\ ledger' = ledger
          /\ clock' = clock]_vars

\* An update of the name alone, on a later day than an update that set
\* the phone: the phone stays, the other user's row is as it was.
C20_Witness ==
    /\ ret.op = "update_profile"
    /\ ret.success
    /\ ret.user_id = "u1"
    /\ DOMAIN ret.profile_data = {"name"}
    /\ users[1].name = ret.profile_data.name
    /\ users[1].phone = "98"
    /\ users[1].updated_at = clock
    /\ clock > 0
    /\ users[2].updated_at < clock

\* C21: update_profile for a user_id that is not in the store returns the
\* not-found result that the profile lookup gives for a missing user, and
\* leaves the store unchanged.
C21_UpdateMissingUserNotFound ==
    [][(/\ ret'.op = "update_profile"
        /\ \A i \in 1..Len(users) : users[i].id # ret'.user_id) =>
          /\ ~ret'.success
          /\ ret'.error = ProfileLookup(ret'.user_id, users').error
          /\ users' = users
          /\ sessions' = sessions
          /\ ledger' = ledger]_vars

----------------------------------------------------------------------------
(* Properties of the dashboard *)

\* The positions of the rows of a sequence, as a set of rows.
RowSet(rows) == {rows[i] : i \in 1..Len(rows)}

\* C22: a bearer token yields a user identifier on the dashboard only if
\* it is a live local session or the identity provider has verified it.
C22_OnlyVerifiedTokensResolve ==
    (ret.op = "dashboard" /\ ret.status = 200) =>
        \/ \E j \in 1..Len(sessions) :
              sessions[j].token = ret.auth /\ clock < sessions[j].expires_at
        \/ ret.auth \in RemoteTokens

\* C23: the rows summarize aggregates for a user are exactly the rows of
\* the user dated in [window_start, window_end], both bounds inclusive
\* (every date of the ledger parses).
C23_WindowBothBounds ==
    (DashboardDone /\ ret.fault = "none") =>
        RowSet(ret.summarized) =
            {row \in RowSet(ledger) :
                /\ row.user_id = ret.user_id
                /\ clock - WindowDays <= row.date
                /\ row.date <= clock}

\* C26: when the read of the ledger or a later step of building the
\* overview fails for an authenticated caller, the overview is returned
\* in success shape with the all-zero financial summary.
C26_FaultGivesEmptyOverview ==
    (ret.op = "dashboard" /\ "fault" \in DOMAIN ret /\ ret.fault # "none") =>
        /\ ret.status = 200
        /\ ret.financial_summary.total_income = 0
        /\ ret.financial_summary.total_expenses = 0
        /\ ret.financial_summary.net_savings = 0
        /\ ret.financial_summary.monthly_income = 0
        /\ ret.financial_summary.monthly_expenses = 0
        /\ ret.financial_summary.savings_rate_x10 = 0
        /\ Len(ret.insights) = 1

\* A step after the read fails for a caller whose ledger holds income.
C26_Witness ==
    /\ ret.op = "dashboard"
    /\ "fault" \in DOMAIN ret
    /\ ret.fault = "overview"
    /\ ret.status = 200
    /\ \E i \in 1..Len(ledger) :
          /\ ledger[i].user_id = ret.user_id
          /\ ledger[i].transaction_type = "credit"
          /\ ledger[i].amount > 0
    /\ ret.financial_summary = get_empty_financial_summary

\* C29: the identifier the upload path stores rows under for a bearer
\* token is the identifier the dashboard reads under for that token, so
\* the rows stored under the former are among the rows summarized.
C29_SameIdentifierOnBothPaths ==
    (DashboardDone /\ ret.fault = "none" /\ AuthUserId(ret.auth) # NULL) =>
        /\ ret.user_id = ProfileId(AuthUserId(ret.auth))
        /\ \A i \in 1..Len(ledger) :
              ledger[i].user_id = ProfileId(AuthUserId(ret.auth)) =>
                  ledger[i] \in RowSet(ret.summarized)

\* C24 as stated, on rows whose amounts are not negative: the reported
\* net_savings is the reported total_income minus the reported
\* total_expenses.
C24_ReportedNetIsDifference ==
    (SummaryDone /\ NoNegativeAmount) =>
        ret.financial_summary.net_savings =
            ret.financial_summary.total_income
                - ret.financial_summary.total_expenses

\* C24, amended: the reported net_savings is the difference of the
\* untruncated income and expenses with its fractional part dropped; it
\* is within 1 of the difference of the reported totals.
C24_NetIsTruncatedDifference ==
    SummaryDone =>
        LET rows     == ret.summarized
            all      == 1..Len(rows)
            income   == SumAt(rows, TypedAt(rows, all, "credit"))
            expenses == AbsSumAt(rows, TypedAt(rows, all, "debit"))
            fs       == ret.financial_summary
        IN  /\ IsWholePart(fs.net_savings, income - expenses, AmountScale)
            /\ Abs(fs.net_savings - (fs.total_income - fs.total_expenses)) <= 1

\* A summary whose net_savings is not the difference of its totals.
C24_Witness ==
    /\ SummaryDone
    /\ ret.financial_summary.total_income > 0
    /\ ret.financial_summary.net_savings #
          ret.financial_summary.total_income
              - ret.financial_summary.total_expenses

----------------------------------------------------------------------------
(* Properties of recent activity *)

\* The entries of a type in a list of activity entries.
EntriesOf(activity, type) ==
    LET OfType(e) == e.type = type
    IN  SelectSeq(activity, OfType)

\* The smaller of two numbers.
Min(a, b) == IF a < b THEN a ELSE b

\* The transaction entries are those of the rows with the greatest dates,
\* in descending date order, each with a description of at most 50
\* characters taken from its row and the whole part of the absolute
\* amount.
TransactionEntriesRight(entries) ==
    /\ \A j \in 1..Len(entries) :
          \E i \in 1..Len(ledger) :
              /\ ledger[i].id = entries[j].id
              /\ ledger[i].date = entries[j].date
              /\ Len(entries[j].description) <= 50
              /\ entries[j].description =
                    SubSeq(ledger[i].description, 1,
                           Len(entries[j].description))
              /\ Len(ledger[i].description) <= 50 =>
                    entries[j].description = ledger[i].description
              /\ entries[j].amount >= 0
              /\ IsWholePart(entries[j].amount,
                             Abs(ledger[i].amount), AmountScale)
    /\ \A j, k \in 1..Len(entries) :
          /\ j < k => entries[j].date >= entries[k].date
          /\ j # k => entries[j].id # entries[k].id
    /\ \A i \in 1..Len(ledger) :
          (\A j \in 1..Len(entries) : entries[j].id # ledger[i].id) =>
              \A j \in 1..Len(entries) : ledger[i].date <= entries[j].date

\* C25 as stated: at most 3 transaction entries, those of the greatest
\* dates in descending order, descriptions of at most 50 characters,
\* amounts non-negative integers; every upload entry is kept, and the
\* list has at most 5 entries.
C25_AllUploadsKeptWithinLimit ==
    ret.op = "recent_activity" =>
        /\ Len(EntriesOf(ret.result, "transaction")) <= 3
        /\ TransactionEntriesRight(EntriesOf(ret.result, "transaction"))
        /\ Len(EntriesOf(ret.result, "upload")) = Len(ret.uploads)
        /\ Len(ret.result) <= 5

\* C25, amended: the list is the upload entries, in the order given,
\* followed by the entries of the at most 3 transactions of greatest
\* date, cut to 5 entries: the first 5 uploads at most are kept, and
\* the transaction entries fill what room is left.
C25_FirstFiveOfUploadsThenTransactions ==
    ret.op = "recent_activity" =>
        LET ups  == EntriesOf(ret.result, "upload")
            txns == EntriesOf(ret.result, "transaction")
        IN  /\ ret.result = ups \o txns
            /\ Len(ups) = Min(Len(ret.uploads), 5)
            /\ \A j \in 1..Len(ups) : ups[j].id = ret.uploads[j].id
            /\ Len(txns) = Min(Min(3, Len(ledger)), 5 - Len(ups))
            /\ TransactionEntriesRight(txns)
            /\ Len(ret.result) <= 5

\* Four uploads and four transactions: the four uploads and the entry of
\* the newest transaction.
C25_Witness ==
    /\ ret.op = "recent_activity"
    /\ Len(ret.uploads) = 4
    /\ Len(ledger) = 4
    /\ Len(ret.result) = 5
    /\ ret.result[5].type = "transaction"
    /\ \E i \in 1..Len(ledger) :
          /\ ledger[i].id = ret.result[5].id
          /\ Len(ledger[i].description) = 51
          /\ Len(ret.result[5].description) = 50
          /\ ledger[i].amount < 0
          /\ ret.result[5].amount > 0

----------------------------------------------------------------------------
(* Properties of concurrent ingestion *)

\* The records of an upload that store_transaction accepts.
Accepted(recs) ==
    LET Stored(rec) == ~StoreRefuses(rec)
    IN  SelectSeq(recs, Stored)

\* A ledger row without its id: the record it was stored from.
RecordOf(row) ==
    [file_id          |-> row.file_id,
     user_id          |-> row.user_id,
     date             |-> row.date,
     description      |-> row.description,
     amount           |-> row.amount,
     transaction_type |-> row.transaction_type,
     category         |-> row.category]

\* The rows of the ledger that carry a file id, as records.
RecordsOfFile(file_id) ==
    LET OfFile(row) == row.file_id = file_id
        rows == SelectSeq(ledger, OfFile)
    IN  [i \in 1..Len(rows) |-> RecordOf(rows[i])]

BothDone == \A j \in Jobs : regs[j].pc = "done"

\* C27: when two uploads of one user have been ingested with their
\* store steps interleaved, the rows of each upload's file id are exactly
\* its accepted records, each once; every row belongs to one of the two
\* uploads; all transaction ids are pairwise distinct.
C27_InterleavedUploadsComplete ==
    BothDone =>
        /\ \A j \in Jobs :
              /\ RecordsOfFile(regs[j].file_id) = Accepted(regs[j].processed)
              /\ regs[j].stored = Len(Accepted(regs[j].processed))
        /\ Len(ledger) =
              Len(Accepted(regs["A"].processed))
                + Len(Accepted(regs["B"].processed))
        /\ \A i, k \in 1..Len(ledger) :
              i # k => ledger[i].id # ledger[k].id

\* Both uploads stored two records each, and their rows alternate in the
\* ledger.
C27_Witness ==
    /\ BothDone
    /\ Len(ledger) = 4
    /\ ledger[1].file_id # ledger[2].file_id
    /\ ledger[2].file_id # ledger[3].file_id
    /\ ledger[3].file_id # ledger[4].file_id

\* s is the beginning of t
IsPrefix(s, t) == Len(s) <= Len(t) /\ s = SubSeq(t, 1, Len(s))

\* C28: every step leaves the rows already stored in the ledger, with
\* their fields unchanged: steps only append.
C28_RowsOnlyAppended == [][IsPrefix(ledger, ledger')]_vars

\* A worker stopped part-way, after a row of its upload was stored and
\* with a record still to store, and the row is in the ledger.
C28_Witness ==
    \E j \in Jobs :
        /\ regs[j].pc = "abandoned"
        /\ regs[j].stored >= 1
        /\ regs[j].todo # <<>>
        /\ \E i \in 1..Len(ledger) : ledger[i].file_id = regs[j].file_id

----------------------------------------------------------------------------
(* Properties of the list and summary routes *)

\* The identifiers of the user the provider verified a token for: the
\* auth id and the id of the profile row.
OwnerIds(auth) == {RemoteUser(auth), ProfileId(RemoteUser(auth))}

\* C30: the rows a list or summary response is made of belong to the
\* user who owns the bearer token presented, whatever user id the request
\* path names.
C30_OnlyOwnRowsReturned ==
    (ret.op \in {"transactions", "processing_summary"} /\ ret.status = 200) =>
        \A i \in 1..Len(ret.transactions) :
            ret.transactions[i].user_id \in OwnerIds(ret.auth)

====
